---- MODULE Spec2Model ----
(***************************************************************************)
(* The resiliency helpers of src/lib/api/novels.ts: withTimeout (a race    *)
(* of an operation's promise against a timer) and fetchWithRetry (a capped *)
(* retry loop with linear backoff around withTimeout), run on a            *)
(* single-threaded event loop with a millisecond clock.                    *)
(*                                                                         *)
(* A call is either fetchWithRetry(fetchFn, maxRetries, delay) or a direct *)
(* withTimeout(promise, timeoutMs).  Synchronous code runs to completion:  *)
(* while a call is at a synchronous program point no timer fires, no       *)
(* promise settles and the clock does not move.                            *)
(***************************************************************************)
EXTENDS Integers, Sequences, FiniteSets

(* ---------------------------------------------------------------- bounds *)
NumCalls == 2
MaxRetriesInput == 3
LatencyUnit == 5000
MaxLatencyUnits == 3
ShortTimeout == 5
LongDelay == 2500
MaxRetriesTwo == 2
NumGenres == 4

(* ----------------------------------------------------- program constants *)
SUPABASE_TIMEOUT == 10000
DefaultMaxRetries == 3
DefaultDelay == 1000
MaxGenres == 3

CallIds == 1..NumCalls

\* maxRetries is an unvalidated number: zero and a negative count are inputs too.
RetryInputs == (0 - 1)..MaxRetriesInput \cup {DefaultMaxRetries}
DelayInputs == {0, DefaultDelay, LongDelay}
TimeoutInputs == {0, ShortTimeout, SUPABASE_TIMEOUT}
Latencies == {n * LatencyUnit : n \in 0..MaxLatencyUnits}

(* -------------------------------------------------------- values, errors *)
\* An outcome or settlement: kind, the value or error message, and the
\* identity of the object (the attempt that created it; 0 when there is none).
NoOutcome == [kind |-> "none", val |-> "none", id |-> 0]
Undefined == [kind |-> "undefined", val |-> "undefined", id |-> 0]
OpValue(k) == [kind |-> "value", val |-> "data", id |-> k]
OpError(k) == [kind |-> "error", val |-> "operation failed", id |-> k]

\* What one invocation of the operation will do: throw synchronously, return a
\* promise that never settles, or a promise that settles after `latency` ms.
PromiseBehaviours ==
    {[threw |-> FALSE, settles |-> TRUE, latency |-> l, kind |-> r] :
         l \in Latencies, r \in {"value", "error"}}
    \cup {[threw |-> FALSE, settles |-> FALSE, latency |-> 0, kind |-> "value"]}

OpBehaviours ==
    PromiseBehaviours
    \cup {[threw |-> TRUE, settles |-> FALSE, latency |-> 0, kind |-> "error"]}

\* The behaviours tried when two calls run side by side: an immediate value
\* or error, a value that comes after the deadline, no settlement at all.
SideBySideBehaviours ==
    {b \in PromiseBehaviours :
        \/ ~b.settles
        \/ b.latency = 0
        \/ b.latency = MaxLatencyUnits * LatencyUnit /\ b.kind = "value"}

VARIABLES
    now,        \* the clock, in ms
    fn,         \* fn[c]: which function call c is: "idle", "fetchWithRetry", "withTimeout"
    args,       \* args[c]: maxRetries, delay, timeoutMs, promise (direct withTimeout)
    pc,         \* pc[c]: the program point of call c
    i,          \* i[c]: the loop index of fetchWithRetry
    lastError,  \* lastError[c]
    attempts,   \* attempts[c]: one record per invocation of the operation
    waits,      \* waits[c]: one record per backoff timer
    outcome,    \* outcome[c]: what the call's promise settled with
    nOutcomes   \* nOutcomes[c]: how many times the call produced an outcome

retryVars == <<now, fn, args, pc, i, lastError, attempts, waits, outcome, nOutcomes>>

\* The create-novel feature: the modal's React state and props, the
\* createNovel call it makes, and what that call did to its collaborators.
VARIABLES
    userProfile,  \* useAuth().userProfile is present
    formData,     \* title, author, genre, leading_character, story
    coverImage,   \* "null" or "file"
    uploading,    \* the uploading flag
    error,        \* the error message shown, or "null"
    inFlight,     \* number of createNovel calls made and not yet settled
    cn,           \* the createNovel call of the latest submit
    io,           \* what that call asked of the object store and the record store
    toasts,       \* the notifications that call emitted
    callbacks     \* the props handleSubmit called for the latest submit

appVars == <<userProfile, formData, coverImage, uploading, error, inFlight, cn, io,
             toasts, callbacks>>

vars == <<retryVars, appVars>>

(* ------------------------------------------------- the create-novel form *)
\* GENRES, the list the genre buttons are rendered from.
Genres == 1..NumGenres

\* What can be typed into a text field: nothing, only white space, or text
\* with white space around it (strings are sequences of characters).
TextInputs == {<<>>, <<" ">>, <<" ", "a", " ">>}

\* What an error object's message can be: missing, or a text.
Messages == {"undefined", "request failed"}

\* a || b on messages: b when a is missing.
OrElse(a, b) == IF a = "undefined" THEN b ELSE a

RECURSIVE TrimStart(_)
TrimStart(s) == IF s # <<>> /\ Head(s) = " " THEN TrimStart(Tail(s)) ELSE s

RECURSIVE TrimEnd(_)
TrimEnd(s) ==
    IF s # <<>> /\ s[Len(s)] = " " THEN TrimEnd(SubSeq(s, 1, Len(s) - 1)) ELSE s

\* String.prototype.trim.
Trim(s) == TrimEnd(TrimStart(s))

\* A variant that tests the raw string, without trim().
IsBlankNoTrim(s) == s = <<>>

\* !s.trim()
IsBlank(s) == Trim(s) = <<>>

\* validateForm: the first complaint, or "null".
validateForm ==
    IF IsBlank(formData.title) THEN "Title is required"
    ELSE IF IsBlank(formData.author) THEN "Author is required"
    ELSE IF Len(formData.genre) = 0 THEN "Please select at least one genre"
    ELSE IF IsBlank(formData.story) THEN "Synopsis is required"
    ELSE "null"

\* No createNovel call has been made.
NoCall == [pc |-> "idle", coverImage |-> "null", novel_coverpage |-> "null", settled |-> "pending",
           success |-> FALSE, error |-> "undefined"]

NoIo == [uploads |-> 0, inserts |-> 0, stored |-> FALSE, row |-> "none"]

\* The modal as first rendered: the useState initial values.
AppInit ==
    /\ formData = [title |-> <<>>, author |-> <<>>, genre |-> <<>>,
                   leading_character |-> "male", story |-> <<>>]
    /\ coverImage = "null"
    /\ uploading = FALSE
    /\ error = "null"
    /\ inFlight = 0
    /\ cn = NoCall
    /\ io = NoIo
    /\ toasts = <<>>
    /\ callbacks = <<>>

\* The modal is not in use.
AppIdle == AppInit /\ userProfile = FALSE

(* --------------------------------------------------------------- helpers *)
Max(a, b) == IF a >= b THEN a ELSE b

Min(S) == CHOOSE x \in S : \A y \in S : x <= y

\* A variant that ignores the requested duration and always uses the default.
TimerDueIgnoresMs(ms) == now + SUPABASE_TIMEOUT

\* setTimeout(cb, ms): the callback is due ms from now (a negative ms counts as 0).
TimerDue(ms) == now + Max(ms, 0)

\* new Error('Request timed out'), created by the timer callback of attempt k.
TimeoutError(k) == [kind |-> "error", val |-> "Request timed out", id |-> k]

\* The settlement of the operation's promise of attempt record a.
OpSettlement(a) == a.opResult

\* A variant of the race without the settled-once guard.
RaceSettledNever(a) == FALSE

\* Promise.race: the first settlement wins; once settled, later ones are ignored.
RaceSettled(a) == a.wt.kind # "none"

\* A variant that loses the operation's value.
RaceResultDropsValue(s) ==
    IF s.kind = "value" THEN [s EXCEPT !.val = "undefined"] ELSE s

\* A variant that reports every failure of the operation as a Timeout.
RaceResultMasksError(s) ==
    IF s.kind = "error" THEN [s EXCEPT !.val = "Request timed out"] ELSE s

\* The value withTimeout hands on when the operation's promise wins the race.
RaceResult(s) == s

\* A call at a synchronous program point: the event loop runs nothing else.
SyncPcs == {"test", "catch", "return", "throw"}

Running == \E c \in CallIds : pc[c] \in SyncPcs

\* A variant with an off-by-one loop condition, i <= maxRetries.
LoopCondInclusive(c) == i[c] <= args[c].maxRetries

\* fetchWithRetry: the loop condition, i < maxRetries.
LoopCond(c) == i[c] < args[c].maxRetries

\* A variant that also waits after the last attempt, i < maxRetries.
ShouldWaitInclusive(c) == i[c] < args[c].maxRetries

\* fetchWithRetry: the guard of the backoff wait, i < maxRetries - 1.
ShouldWait(c) == i[c] < args[c].maxRetries - 1

\* A variant with a zero-based multiplier, delay * i.
BackoffMsZeroBased(c) == args[c].delay * i[c]

\* fetchWithRetry: the backoff duration, delay * (i + 1).
BackoffMs(c) == args[c].delay * (i[c] + 1)

\* A variant in which lastError is one variable shared by all calls.
FrameShared(c) == 1

\* let lastError is declared in the function body: every call has its own.
Frame(c) == c

\* A variant that only remembers the first error it catches.
CaughtErrorKeepsFirst(c, e) ==
    IF lastError[c] = Undefined THEN e ELSE lastError[c]

\* fetchWithRetry: lastError = error.
CaughtError(c, e) == e

\* A variant that arms no timer when timeoutMs is 0 (a falsy-duration test).
TimerSkippedForZero(timeoutMs) == IF timeoutMs = 0 THEN "none" ELSE "pending"

\* A variant that never arms the timer.
TimerNeverArmed(timeoutMs) == "none"

\* withTimeout: setTimeout is called unconditionally, whatever timeoutMs is.
TimerArmed(timeoutMs) == "pending"

\* The record of an invocation of the operation with behaviour b, numbered k,
\* raced by withTimeout against a timer of timeoutMs.
NewAttempt(k, b, timeoutMs) ==
    [opStart    |-> now,
     opSettles  |-> b.settles,
     opDue      |-> now + b.latency,
     opResult   |-> IF b.kind = "value" THEN OpValue(k) ELSE OpError(k),
     opState    |-> "pending",
     timeoutMs  |-> timeoutMs,
     timerDue   |-> TimerDue(timeoutMs),
     timerState |-> TimerArmed(timeoutMs),
     order      |-> <<>>,
     wt         |-> NoOutcome,
     wtAt       |-> 0,
     res        |-> NoOutcome,
     resAt      |-> 0]

\* The record of an invocation that threw synchronously: withTimeout is never
\* called, no promise and no timer exist.
ThrownAttempt(k) ==
    [opStart    |-> now,
     opSettles  |-> FALSE,
     opDue      |-> now,
     opResult   |-> OpError(k),
     opState    |-> "threw",
     timeoutMs  |-> 0,
     timerDue   |-> now,
     timerState |-> "none",
     order      |-> <<>>,
     wt         |-> NoOutcome,
     wtAt       |-> 0,
     res        |-> OpError(k),
     resAt      |-> now]

(* ------------------------------------------------------------------ Init *)
IdleArgs ==
    [maxRetries |-> 0, delay |-> 0, timeoutMs |-> 0,
     promise |-> [threw |-> FALSE, settles |-> FALSE, latency |-> 0, kind |-> "value"]]

CallArgs ==
    {[maxRetries |-> m, delay |-> d, timeoutMs |-> SUPABASE_TIMEOUT,
      promise |-> IdleArgs.promise] : m \in RetryInputs, d \in DelayInputs}

DirectArgs ==
    {[maxRetries |-> 0, delay |-> 0, timeoutMs |-> t, promise |-> p] :
         t \in TimeoutInputs, p \in PromiseBehaviours}

\* One call, of either function, is about to be made; the other call slots stay idle.
Init ==
    /\ now = 0
    /\ \E f \in {"fetchWithRetry", "withTimeout"} :
         /\ fn = [c \in CallIds |-> IF c = 1 THEN f ELSE "idle"]
         /\ \E a \in (IF f = "fetchWithRetry" THEN CallArgs ELSE DirectArgs) :
              args = [c \in CallIds |-> IF c = 1 THEN a ELSE IdleArgs]
    /\ pc = [c \in CallIds |-> IF c = 1 THEN "start" ELSE "idle"]
    /\ i = [c \in CallIds |-> 0]
    /\ lastError = [c \in CallIds |-> Undefined]
    /\ attempts = [c \in CallIds |-> <<>>]
    /\ waits = [c \in CallIds |-> <<>>]
    /\ outcome = [c \in CallIds |-> NoOutcome]
    /\ nOutcomes = [c \in CallIds |-> 0]
    /\ AppIdle

\* Two fetchWithRetry calls are about to be made, at any two moments.
TwoCallArgs ==
    {a \in CallArgs : a.maxRetries \in 1..MaxRetriesTwo /\ a.delay = DefaultDelay}

InitTwo ==
    /\ now = 0
    /\ fn = [c \in CallIds |-> IF c \in {1, 2} THEN "fetchWithRetry" ELSE "idle"]
    /\ \E a1 \in TwoCallArgs : \E a2 \in TwoCallArgs :
         args = [c \in CallIds |-> IF c = 1 THEN a1 ELSE IF c = 2 THEN a2 ELSE IdleArgs]
    /\ pc = [c \in CallIds |-> IF c \in {1, 2} THEN "start" ELSE "idle"]
    /\ i = [c \in CallIds |-> 0]
    /\ lastError = [c \in CallIds |-> Undefined]
    /\ attempts = [c \in CallIds |-> <<>>]
    /\ waits = [c \in CallIds |-> <<>>]
    /\ outcome = [c \in CallIds |-> NoOutcome]
    /\ nOutcomes = [c \in CallIds |-> 0]
    /\ AppIdle

(* --------------------------------------------------------- withTimeout *)
\* A variant with a default deadline twice as long.
DefaultTimeoutMsDoubled == 2 * SUPABASE_TIMEOUT

\* withTimeout's default parameter, timeoutMs = SUPABASE_TIMEOUT.
DefaultTimeoutMs == SUPABASE_TIMEOUT

\* A variant without the return: a value is handled like a failure.
AfterAwaitRetriesAnyway(s) == "catch"

\* try { return await ... } catch: a value goes to the return, an error to
\* the catch block.
AfterAwait(s) == IF s.kind = "value" THEN "return" ELSE "catch"

\* The await on withTimeout's promise resumes call c with settlement s: a
\* direct withTimeout call is settled by it; fetchWithRetry returns the value
\* or enters its catch block.
Resume(c, s) ==
    IF fn[c] = "withTimeout"
    THEN /\ pc' = [pc EXCEPT ![c] = "done"]
         /\ outcome' = [outcome EXCEPT ![c] = s]
         /\ nOutcomes' = [nOutcomes EXCEPT ![c] = @ + 1]
    ELSE /\ pc' = [pc EXCEPT ![c] = AfterAwait(s)]
         /\ UNCHANGED <<outcome, nOutcomes>>

\* One branch of the race of attempt k settles with s; a is the attempt's
\* record with that branch marked (order lists the branches as they settle).  Only the first settlement settles the race
\* and resumes the caller.
Settle(c, k, a, s) ==
    /\ IF RaceSettled(a)
       THEN /\ attempts' = [attempts EXCEPT ![c][k] = a]
            /\ UNCHANGED <<pc, outcome, nOutcomes>>
       ELSE /\ attempts' = [attempts EXCEPT ![c][k] =
                               [a EXCEPT !.wt = s, !.wtAt = now, !.res = s, !.resAt = now]]
            /\ Resume(c, s)
    /\ UNCHANGED <<now, fn, args, i, lastError, waits,
                   appVars>>

\* The operation's promise of attempt k settles (it is never cancelled, so
\* this also happens after the race or the whole call is over).
OpSettles(c, k) ==
    /\ ~Running
    /\ k \in DOMAIN attempts[c]
    /\ LET a == attempts[c][k] IN
         /\ a.opState = "pending"
         /\ a.opSettles
         /\ a.opDue <= now
         /\ Settle(c, k, [a EXCEPT !.opState = "settled", !.order = Append(@, "op")], RaceResult(OpSettlement(a)))

\* The timer of attempt k elapses (it is never cleared): reject(new Error(...)).
TimerFires(c, k) ==
    /\ ~Running
    /\ k \in DOMAIN attempts[c]
    /\ LET a == attempts[c][k] IN
         /\ a.timerState = "pending"
         /\ a.timerDue <= now
         /\ Settle(c, k, [a EXCEPT !.timerState = "fired", !.order = Append(@, "timer")], TimeoutError(k))

(* ------------------------------------------------------ fetchWithRetry *)
\* The call is made.  fetchWithRetry: let lastError; i = 0.  withTimeout:
\* the timer is created and raced against the given promise.
Call(c) ==
    /\ ~Running
    /\ pc[c] = "start"
    /\ IF fn[c] = "fetchWithRetry"
       THEN /\ pc' = [pc EXCEPT ![c] = "test"]
            /\ i' = [i EXCEPT ![c] = 0]
            /\ lastError' = [lastError EXCEPT ![Frame(c)] = Undefined]
            /\ UNCHANGED attempts
       ELSE /\ pc' = [pc EXCEPT ![c] = "await"]
            /\ attempts' = [attempts EXCEPT ![c] =
                               <<NewAttempt(1, args[c].promise, args[c].timeoutMs)>>]
            /\ UNCHANGED <<i, lastError>>
    /\ UNCHANGED <<now, fn, args, waits, outcome, nOutcomes,
                   appVars>>

\* What fetchFn may do when call c invokes it.
BehavioursOf(c) ==
    IF Cardinality({d \in CallIds : fn[d] # "idle"}) > 1
    THEN SideBySideBehaviours
    ELSE OpBehaviours

\* The loop condition holds: fetchFn() is invoked; unless it throws, its
\* promise is passed to withTimeout and awaited.
Attempt(c) ==
    /\ pc[c] = "test"
    /\ LoopCond(c)
    /\ \E b \in BehavioursOf(c) :
         LET k == Len(attempts[c]) + 1 IN
           IF b.threw
           THEN /\ attempts' = [attempts EXCEPT ![c] = Append(@, ThrownAttempt(k))]
                /\ pc' = [pc EXCEPT ![c] = "catch"]
           ELSE /\ attempts' = [attempts EXCEPT ![c] =
                                   Append(@, NewAttempt(k, b, DefaultTimeoutMs))]
                /\ pc' = [pc EXCEPT ![c] = "await"]
    /\ UNCHANGED <<now, fn, args, i, lastError, waits, outcome, nOutcomes,
                   appVars>>

\* The loop condition fails: control reaches throw lastError.
LoopExit(c) ==
    /\ pc[c] = "test"
    /\ ~LoopCond(c)
    /\ pc' = [pc EXCEPT ![c] = "throw"]
    /\ UNCHANGED <<now, fn, args, i, lastError, attempts, waits, outcome, nOutcomes,
                   appVars>>

\* The promise of a throw: rejected with the thrown payload.
Rejected(e) == [kind |-> "error", val |-> e.val, id |-> e.id]

\* throw lastError.
Throw(c) ==
    /\ pc[c] = "throw"
    /\ pc' = [pc EXCEPT ![c] = "done"]
    /\ outcome' = [outcome EXCEPT ![c] = Rejected(lastError[Frame(c)])]
    /\ nOutcomes' = [nOutcomes EXCEPT ![c] = @ + 1]
    /\ UNCHANGED <<now, fn, args, i, lastError, attempts, waits,
                   appVars>>

\* return await withTimeout(fetchFn()), the awaited value being at hand.
Return(c) ==
    /\ pc[c] = "return"
    /\ pc' = [pc EXCEPT ![c] = "done"]
    /\ outcome' = [outcome EXCEPT ![c] = attempts[c][Len(attempts[c])].res]
    /\ nOutcomes' = [nOutcomes EXCEPT ![c] = @ + 1]
    /\ UNCHANGED <<now, fn, args, i, lastError, attempts, waits,
                   appVars>>

\* The catch block: remember the error, then either start the backoff timer
\* and await it, or fall through to i++.
Catch(c) ==
    /\ pc[c] = "catch"
    /\ lastError' = [lastError EXCEPT ![Frame(c)] =
                        CaughtError(c, attempts[c][Len(attempts[c])].res)]
    /\ IF ShouldWait(c)
       THEN /\ waits' = [waits EXCEPT ![c] =
                            Append(@, [ms |-> BackoffMs(c), start |-> now,
                                       due |-> TimerDue(BackoffMs(c)),
                                       state |-> "pending"])]
            /\ pc' = [pc EXCEPT ![c] = "sleep"]
            /\ UNCHANGED i
       ELSE /\ i' = [i EXCEPT ![c] = @ + 1]
            /\ pc' = [pc EXCEPT ![c] = "test"]
            /\ UNCHANGED waits
    /\ UNCHANGED <<now, fn, args, attempts, outcome, nOutcomes,
                   appVars>>

\* The backoff timer elapses: the await ends, i++, back to the loop test.
BackoffFires(c) ==
    /\ ~Running
    /\ pc[c] = "sleep"
    /\ waits[c] # <<>>
    /\ LET w == waits[c][Len(waits[c])] IN
         /\ w.state = "pending"
         /\ w.due <= now
    /\ waits' = [waits EXCEPT ![c][Len(waits[c])].state = "fired"]
    /\ i' = [i EXCEPT ![c] = @ + 1]
    /\ pc' = [pc EXCEPT ![c] = "test"]
    /\ UNCHANGED <<now, fn, args, lastError, attempts, outcome, nOutcomes,
                   appVars>>

(* ------------------------------------------------------------ the clock *)
\* The due times of everything the event loop still has to run.
DueTimes ==
    UNION {
        {attempts[c][k].opDue : k \in {x \in DOMAIN attempts[c] :
                 attempts[c][x].opState = "pending" /\ attempts[c][x].opSettles}}
        \cup {attempts[c][k].timerDue : k \in {x \in DOMAIN attempts[c] :
                 attempts[c][x].timerState = "pending"}}
        \cup {waits[c][w].due : w \in {x \in DOMAIN waits[c] :
                 waits[c][x].state = "pending"}}
        : c \in CallIds}

\* Nothing is due: the clock moves on to the next due time.
Tick ==
    /\ ~Running
    /\ DueTimes # {}
    /\ \A d \in DueTimes : d > now
    /\ now' = Min(DueTimes)
    /\ UNCHANGED <<fn, args, pc, i, lastError, attempts, waits, outcome, nOutcomes,
                   appVars>>

Next ==
    \/ \E c \in CallIds : Call(c)
    \/ \E c \in CallIds : Attempt(c)
    \/ \E c \in CallIds : LoopExit(c)
    \/ \E c \in CallIds : Throw(c)
    \/ \E c \in CallIds : Return(c)
    \/ \E c \in CallIds : Catch(c)
    \/ \E c \in CallIds : BackoffFires(c)
    \/ \E c \in CallIds : \E k \in DOMAIN attempts[c] : OpSettles(c, k)
    \/ \E c \in CallIds : \E k \in DOMAIN attempts[c] : TimerFires(c, k)
    \/ Tick

Spec == Init /\ [][Next]_vars

SpecTwo == InitTwo /\ [][Next]_vars

\* The event loop keeps running whatever is ready: a due timer callback, a
\* due settlement, the continuation of a call, the passage of time.
FairSpec == Spec /\ WF_vars(Next)

(* ------------------------------------- createNovel and CreateNovelModal *)
\* No call of the resiliency helpers is made while the form is in use.
RetryIdle ==
    /\ now = 0
    /\ fn = [c \in CallIds |-> "idle"]
    /\ args = [c \in CallIds |-> IdleArgs]
    /\ pc = [c \in CallIds |-> "idle"]
    /\ i = [c \in CallIds |-> 0]
    /\ lastError = [c \in CallIds |-> Undefined]
    /\ attempts = [c \in CallIds |-> <<>>]
    /\ waits = [c \in CallIds |-> <<>>]
    /\ outcome = [c \in CallIds |-> NoOutcome]
    /\ nOutcomes = [c \in CallIds |-> 0]

\* The modal is rendered for a user who is logged in, or is not.
InitApp ==
    /\ RetryIdle
    /\ AppInit
    /\ userProfile \in BOOLEAN

\* A variant of the genre limit that is off by one.
CanAddGenreInclusive(list) == Len(list) <= MaxGenres

\* prev.genre.length < 3
CanAddGenre(list) == Len(list) < MaxGenres

\* list.includes(g)
Includes(list, g) == \E k \in DOMAIN list : list[k] = g

\* list.filter(x => x !== g)
RECURSIVE Without(_, _)
Without(list, g) ==
    IF list = <<>> THEN <<>>
    ELSE IF Head(list) = g THEN Without(Tail(list), g)
    ELSE <<Head(list)>> \o Without(Tail(list), g)

\* The genre button's updater: remove a selected genre, add an unselected
\* one while there is room, else keep the list.
ToggledGenre(list, g) ==
    IF Includes(list, g) THEN Without(list, g)
    ELSE IF CanAddGenre(list) THEN Append(list, g)
    ELSE list

\* A variant of the form controls that are never disabled.
ControlsEnabledAlways == TRUE

\* disabled={uploading} on every input and button of the form.
ControlsEnabled == ~uploading

\* createNovel: if (coverImage).
NeedsUpload(cover) == cover # "null"

\* A variant of createNovel's catch block that rethrows.
CreateNovelCatchRethrows(m) ==
    [settled |-> "rejected", success |-> FALSE, error |-> m]

\* createNovel's catch block: return { success: false, error: error.message }.
CreateNovelCatch(m) ==
    [settled |-> "resolved", success |-> FALSE, error |-> m]

\* createNovel: return { success: true }.
CreateNovelSuccess ==
    [settled |-> "resolved", success |-> TRUE, error |-> "undefined"]

\* A variant of the catch block that removes the uploaded cover again.
CoverRemoved(stored) == FALSE

\* createNovel's catch block leaves the object store alone.
CoverKept(stored) == stored

\* Text-field and select onChange handlers, the file input's onChange.
SetTitle(v) ==
    /\ ControlsEnabled
    /\ formData' = [formData EXCEPT !.title = v]
    /\ UNCHANGED <<retryVars, userProfile, coverImage, uploading, error, inFlight, cn,
                   io, toasts, callbacks>>

SetAuthor(v) ==
    /\ ControlsEnabled
    /\ formData' = [formData EXCEPT !.author = v]
    /\ UNCHANGED <<retryVars, userProfile, coverImage, uploading, error, inFlight, cn,
                   io, toasts, callbacks>>

SetStory(v) ==
    /\ ControlsEnabled
    /\ formData' = [formData EXCEPT !.story = v]
    /\ UNCHANGED <<retryVars, userProfile, coverImage, uploading, error, inFlight, cn,
                   io, toasts, callbacks>>

SetLeadingCharacter(v) ==
    /\ ControlsEnabled
    /\ formData' = [formData EXCEPT !.leading_character = v]
    /\ UNCHANGED <<retryVars, userProfile, coverImage, uploading, error, inFlight, cn,
                   io, toasts, callbacks>>

SetCoverImage(f) ==
    /\ ControlsEnabled
    /\ coverImage' = f
    /\ UNCHANGED <<retryVars, userProfile, formData, uploading, error, inFlight, cn,
                   io, toasts, callbacks>>

\* A genre button is clicked.
ToggleGenre(g) ==
    /\ ControlsEnabled
    /\ formData' = [formData EXCEPT !.genre = ToggledGenre(@, g)]
    /\ UNCHANGED <<retryVars, userProfile, coverImage, uploading, error, inFlight, cn,
                   io, toasts, callbacks>>

\* handleSubmit up to its await: without a profile nothing happens; an
\* invalid form only sets the error; otherwise the error is cleared,
\* uploading is set and createNovel is called, which runs up to its first
\* await: the cover upload if a cover is given, else the insert.
Submit ==
    /\ ControlsEnabled
    /\ IF ~userProfile
       THEN UNCHANGED <<error, uploading, inFlight, cn, io, toasts, callbacks>>
       ELSE IF validateForm # "null"
       THEN /\ error' = validateForm
            /\ UNCHANGED <<uploading, inFlight, cn, io, toasts, callbacks>>
       ELSE /\ error' = "null"
            /\ uploading' = TRUE
            /\ inFlight' = inFlight + 1
            /\ toasts' = <<>>
            /\ callbacks' = <<>>
            /\ IF NeedsUpload(coverImage)
               THEN /\ cn' = [NoCall EXCEPT !.pc = "upload", !.coverImage = coverImage]
                    /\ io' = [NoIo EXCEPT !.uploads = 1]
               ELSE /\ cn' = [NoCall EXCEPT !.pc = "insert", !.coverImage = coverImage]
                    /\ io' = [NoIo EXCEPT !.inserts = 1]
    /\ UNCHANGED <<retryVars, userProfile, formData, coverImage>>

\* handleSubmit after its await, createNovel having settled with r: the
\* success branch, the failure branch or the catch block, then finally.
Finish(r) ==
    /\ inFlight' = inFlight - 1
    /\ uploading' = FALSE
    /\ IF r.settled = "resolved"
       THEN IF r.success
            THEN /\ callbacks' = callbacks \o <<"onCreated", "onClose">>
                 /\ UNCHANGED error
            ELSE /\ error' = OrElse(r.error, "Failed to create novel")
                 /\ UNCHANGED callbacks
       ELSE /\ error' = OrElse(r.error, "An unexpected error occurred")
            /\ UNCHANGED callbacks

\* createNovel's catch block with an error whose message is m, and what
\* handleSubmit does with the result.
Fail(m) ==
    /\ toasts' = Append(toasts, [type |-> "error",
                                 text |-> OrElse(m, "Failed to create novel")])
    /\ cn' = [cn EXCEPT !.pc = "done",
                        !.settled = CreateNovelCatch(m).settled,
                        !.success = CreateNovelCatch(m).success,
                        !.error = CreateNovelCatch(m).error]
    /\ Finish(CreateNovelCatch(m))

\* The upload request of uploadNovelCover settles: stored, and createNovel
\* goes on to the insert with the public URL; or refused with uploadError or
\* failed with an exception, which uploadNovelCover rethrows.
UploadSettles ==
    /\ cn.pc = "upload"
    /\ \E r \in {"ok", "error", "throws"} : \E m \in Messages :
         IF r = "ok"
         THEN /\ cn' = [cn EXCEPT !.pc = "insert", !.novel_coverpage = "url"]
              /\ io' = [io EXCEPT !.stored = TRUE, !.inserts = @ + 1]
              /\ UNCHANGED <<uploading, error, inFlight, toasts, callbacks>>
         ELSE /\ Fail(m)
              /\ UNCHANGED io
    /\ UNCHANGED <<retryVars, userProfile, formData, coverImage>>

\* The insert settles: without error, and createNovel notifies and returns
\* success; or with an error or an exception, which its catch block handles.
InsertSettles ==
    /\ cn.pc = "insert"
    /\ \E r \in {"ok", "error", "throws"} : \E m \in Messages :
         IF r = "ok"
         THEN /\ io' = [io EXCEPT !.row = cn.novel_coverpage]
              /\ toasts' = Append(toasts, [type |-> "success",
                                           text |-> "Novel created successfully!"])
              /\ cn' = [cn EXCEPT !.pc = "done",
                                  !.settled = CreateNovelSuccess.settled,
                                  !.success = CreateNovelSuccess.success,
                                  !.error = CreateNovelSuccess.error]
              /\ Finish(CreateNovelSuccess)
         ELSE /\ Fail(m)
              /\ io' = [io EXCEPT !.stored = CoverKept(@)]
    /\ UNCHANGED <<retryVars, userProfile, formData, coverImage>>

NextApp ==
    \/ \E v \in TextInputs : SetTitle(v)
    \/ \E v \in TextInputs : SetAuthor(v)
    \/ \E v \in TextInputs : SetStory(v)
    \/ \E v \in {"male", "female"} : SetLeadingCharacter(v)
    \/ \E f \in {"null", "file"} : SetCoverImage(f)
    \/ \E g \in Genres : ToggleGenre(g)
    \/ Submit
    \/ UploadSettles
    \/ InsertSettles

SpecApp == InitApp /\ [][NextApp]_vars

(* =============================================================== claims *)
RetryCalls == {c \in CallIds : fn[c] = "fetchWithRetry"}

\* Every attempt call c has made so far ended in a failure.
AllFailed(c) == \A k \in DOMAIN attempts[c] : attempts[c][k].res.kind = "error"

\* C1: with maxRetries >= 1, fetchWithRetry never invokes the operation more
\* than maxRetries times; it rejects only after exactly maxRetries
\* invocations, and then with the very failure of attempt maxRetries (the
\* operation's error or the Timeout created in that attempt), never an
\* earlier one; a finished call whose attempts all failed has rejected.
C1_ExhaustedRejectsWithLastFailure ==
    \A c \in RetryCalls :
        LET m == args[c].maxRetries IN
        m >= 1 =>
          /\ Len(attempts[c]) <= m
          /\ outcome[c].kind = "error" =>
               /\ Len(attempts[c]) = m
               /\ outcome[c] = attempts[c][m].res
               /\ outcome[c] \in {OpError(m), TimeoutError(m)}
          /\ (pc[c] = "done" /\ AllFailed(c)) => outcome[c].kind = "error"

\* C1 witness: three failing attempts of different kinds, rejected with the third.
C1_Witness ==
    \E c \in RetryCalls :
        /\ args[c].maxRetries = 3
        /\ pc[c] = "done"
        /\ Len(attempts[c]) = 3
        /\ AllFailed(c)
        /\ attempts[c][1].res = OpError(1)
        /\ attempts[c][3].res = TimeoutError(3)
        /\ outcome[c] = TimeoutError(3)

\* C2: in fetchWithRetry every attempt but the latest has failed (no attempt
\* follows a success); when the call resolves, it resolves with the value of
\* its latest attempt k <= maxRetries, after exactly k invocations; and once
\* an attempt has succeeded exactly k - 1 backoff waits exist, all elapsed.
C2_FirstSuccessShortCircuits ==
    \A c \in RetryCalls :
        LET k == Len(attempts[c]) IN
        /\ \A j \in 1..(k - 1) : attempts[c][j].res.kind = "error"
        /\ outcome[c].kind = "value" =>
             /\ k >= 1
             /\ k <= args[c].maxRetries
             /\ outcome[c] = OpValue(k)
             /\ attempts[c][k].res = OpValue(k)
        /\ (k >= 1 /\ attempts[c][k].res.kind = "value") =>
             /\ Len(waits[c]) = k - 1
             /\ \A w \in DOMAIN waits[c] : waits[c][w].state = "fired"
             /\ pc[c] \in {"return", "done"}

\* C2 witness: two failures, then the third attempt's value is returned and
\* its late timer has elapsed without effect.
C2_Witness ==
    \E c \in RetryCalls :
        /\ args[c].maxRetries = 3
        /\ args[c].delay = DefaultDelay
        /\ pc[c] = "done"
        /\ Len(attempts[c]) = 3
        /\ attempts[c][1].res.kind = "error"
        /\ attempts[c][2].res.kind = "error"
        /\ outcome[c] = OpValue(3)
        /\ attempts[c][3].timerState = "fired"
        /\ Len(waits[c]) = 2

\* C3 (as stated): no invocation of the operation is started while the
\* promise of an earlier invocation of the same call is still unsettled,
\* attempts abandoned at their deadline included.  (Stated for the promises
\* that do settle, later than the new invocation starts.)
C3_NoInvocationWhileEarlierUnsettled ==
    \A c \in RetryCalls :
        \A k \in DOMAIN attempts[c] :
            \A j \in 1..(k - 1) :
                ~ /\ attempts[c][j].opState = "pending"
                  /\ attempts[c][j].opSettles
                  /\ attempts[c][j].opDue > attempts[c][k].opStart

\* C3 (amended): an invocation is started only after every earlier attempt
\* of the call has been delivered to fetchWithRetry as a failure (no later
\* than the new invocation starts), so at most one race is unsettled at a
\* time; an earlier operation can still be unsettled only if its attempt was
\* abandoned because its deadline elapsed.
C3_SequentialUpToAbandoned ==
    \A c \in RetryCalls :
        /\ \A k \in DOMAIN attempts[c] :
             \A j \in 1..(k - 1) :
                 LET a == attempts[c][j] IN
                 /\ a.res.kind = "error"
                 /\ a.resAt <= attempts[c][k].opStart
                 /\ a.opState = "pending" =>
                      /\ a.timerState = "fired"
                      /\ a.res = TimeoutError(j)
        /\ Cardinality({k \in DOMAIN attempts[c] :
                           /\ attempts[c][k].opState # "threw"
                           /\ attempts[c][k].res.kind = "none"}) <= 1

\* C3 witness: attempt 2 is in flight while the operation of attempt 1,
\* abandoned at its deadline, is still running and will settle later.
C3_Witness ==
    \E c \in RetryCalls :
        /\ Len(attempts[c]) = 2
        /\ attempts[c][1].opState = "pending"
        /\ attempts[c][1].opSettles
        /\ attempts[c][1].opDue > attempts[c][2].opStart
        /\ attempts[c][1].res = TimeoutError(1)
        /\ attempts[c][2].opState = "pending"
        /\ pc[c] = "await"

\* C4: in every withTimeout race (direct or inside fetchWithRetry) whose timer
\* elapsed before the operation settled, withTimeout rejected with the
\* Timeout error 'Request timed out', exactly timeoutMs after it was called,
\* and that stays its outcome when the operation settles afterwards.
C4_TimerFirstGivesTimeout ==
    \A c \in CallIds :
        \A k \in DOMAIN attempts[c] :
            LET a == attempts[c][k] IN
            (a.order # <<>> /\ a.order[1] = "timer") =>
              /\ a.wt = TimeoutError(k)
              /\ a.wt.val = "Request timed out"
              /\ a.wtAt = a.opStart + a.timeoutMs
              /\ a.res = a.wt
              /\ fn[c] = "withTimeout" =>
                   (pc[c] = "done" /\ outcome[c] = TimeoutError(k))

\* C4 witness: a 5 ms deadline, an operation that produced its value later.
C4_Witness ==
    \E c \in CallIds :
        /\ fn[c] = "withTimeout"
        /\ args[c].timeoutMs = ShortTimeout
        /\ Len(attempts[c]) = 1
        /\ attempts[c][1].order = <<"timer", "op">>
        /\ attempts[c][1].opResult.kind = "value"
        /\ attempts[c][1].wtAt = ShortTimeout
        /\ outcome[c] = TimeoutError(1)

\* C5: in every withTimeout race whose operation resolved before the timer
\* elapsed, withTimeout resolved with exactly the operation's value, and
\* that stays its outcome after the timer elapses; it is never a Timeout.
C5_ValueFirstGivesValue ==
    \A c \in CallIds :
        \A k \in DOMAIN attempts[c] :
            LET a == attempts[c][k] IN
            (a.order # <<>> /\ a.order[1] = "op" /\ a.opResult.kind = "value") =>
              /\ a.wt = OpValue(k)
              /\ a.wt = a.opResult
              /\ a.res = OpValue(k)
              /\ a.wtAt = a.opDue
              /\ fn[c] = "withTimeout" =>
                   (pc[c] = "done" /\ outcome[c] = OpValue(k))

\* C5 witness: the operation resolved first and the timer has elapsed since.
C5_Witness ==
    \E c \in CallIds :
        /\ fn[c] = "withTimeout"
        /\ Len(attempts[c]) = 1
        /\ attempts[c][1].order = <<"op", "timer">>
        /\ attempts[c][1].opResult = OpValue(1)
        /\ outcome[c] = OpValue(1)

\* C6 (as stated): once a withTimeout race has settled, whichever branch
\* won, no timer that withTimeout created is still pending, waiting for a
\* due time yet to come.
C6_NoPendingTimerAfterSettle ==
    \A c \in CallIds :
        \A k \in DOMAIN attempts[c] :
            attempts[c][k].wt.kind # "none" =>
              ~ /\ attempts[c][k].timerState = "pending"
                /\ attempts[c][k].timerDue > now

\* C7: in fetchWithRetry the w-th backoff wait is requested for delay * w ms,
\* starts when attempt w has failed and ends exactly delay * w ms later, when
\* attempt w + 1 is invoked; there is exactly one wait between consecutive
\* attempts, none after attempt maxRetries, and never two waits pending.
C7_LinearBackoff ==
    \A c \in RetryCalls :
        LET n == Len(attempts[c]) IN
        /\ Len(waits[c]) \in {n - 1, n} \cap Nat
        /\ Len(waits[c]) <= Max(args[c].maxRetries - 1, 0)
        /\ \A w \in DOMAIN waits[c] :
             /\ waits[c][w].ms = args[c].delay * w
             /\ waits[c][w].start = attempts[c][w].resAt
             /\ waits[c][w].due = waits[c][w].start + args[c].delay * w
             /\ w < Len(waits[c]) => waits[c][w].state = "fired"
             /\ w < n =>
                  /\ waits[c][w].state = "fired"
                  /\ attempts[c][w + 1].opStart = waits[c][w].due
        /\ \A k \in 2..n :
             attempts[c][k].opStart - attempts[c][k - 1].resAt = args[c].delay * (k - 1)

\* C7 witness: delay = 1000, a wait of 1000 ms before attempt 2 and of 2000 ms
\* before attempt 3.
C7_Witness ==
    \E c \in RetryCalls :
        /\ args[c].delay = DefaultDelay
        /\ Len(attempts[c]) = 3
        /\ attempts[c][2].opStart - attempts[c][1].resAt = DefaultDelay
        /\ attempts[c][3].opStart - attempts[c][2].resAt = 2 * DefaultDelay
        /\ Len(waits[c]) = 2

\* C8: with maxRetries = 1 fetchWithRetry invokes the operation at most once,
\* never creates a backoff wait, and when it is done it has invoked the
\* operation exactly once and settled with that attempt's value or failure.
C8_SingleAttemptNoWait ==
    \A c \in RetryCalls :
        args[c].maxRetries = 1 =>
          /\ Len(attempts[c]) <= 1
          /\ waits[c] = <<>>
          /\ pc[c] # "sleep"
          /\ pc[c] = "done" =>
               /\ Len(attempts[c]) = 1
               /\ outcome[c] = attempts[c][1].res
               /\ outcome[c] \in {OpValue(1), OpError(1), TimeoutError(1)}

\* C8 witness: the single attempt failed and the call rejected without a wait.
C8_Witness ==
    \E c \in RetryCalls :
        /\ args[c].maxRetries = 1
        /\ args[c].delay = DefaultDelay
        /\ pc[c] = "done"
        /\ Len(attempts[c]) = 1
        /\ outcome[c] = OpError(1)
        /\ waits[c] = <<>>

\* C9 (as stated): every finished fetchWithRetry call has invoked the
\* operation at least once and at most maxRetries times and has produced
\* exactly one outcome.
C9_EveryCallInvokesOnce ==
    \A c \in RetryCalls :
        pc[c] = "done" =>
          /\ Len(attempts[c]) >= 1
          /\ Len(attempts[c]) <= args[c].maxRetries
          /\ nOutcomes[c] = 1

\* C9 (amended): a fetchWithRetry call with maxRetries >= 1 invokes the
\* operation at most maxRetries times and, once finished, at least once; and
\* every call, whatever maxRetries is, produces no outcome before it is
\* finished and exactly one, a value or a failure, when it is, which late
\* settlements of its operations and timers never add to.
C9_BoundedInvocationsOneOutcome ==
    \A c \in RetryCalls :
        /\ args[c].maxRetries >= 1 =>
             /\ Len(attempts[c]) <= args[c].maxRetries
             /\ pc[c] = "done" => Len(attempts[c]) >= 1
        /\ nOutcomes[c] <= 1
        /\ pc[c] = "done" <=> nOutcomes[c] = 1
        /\ pc[c] # "done" <=> outcome[c] = NoOutcome
        /\ pc[c] = "done" => outcome[c].kind \in {"value", "error"}

\* C9 witness: the call rejected with Timeout at its deadline; the abandoned
\* operation resolved afterwards and the outcome is still the one Timeout.
C9_Witness ==
    \E c \in RetryCalls :
        /\ args[c].maxRetries = 1
        /\ pc[c] = "done"
        /\ attempts[c][1].order = <<"timer", "op">>
        /\ attempts[c][1].opResult.kind = "value"
        /\ now > attempts[c][1].wtAt
        /\ outcome[c] = TimeoutError(1)
        /\ nOutcomes[c] = 1

\* C10: in every withTimeout race whose operation rejected before the timer
\* elapsed, withTimeout rejected with the operation's own error object, not
\* with Timeout, and that stays its outcome after the timer elapses.
C10_ErrorFirstGivesOriginalError ==
    \A c \in CallIds :
        \A k \in DOMAIN attempts[c] :
            LET a == attempts[c][k] IN
            (a.order # <<>> /\ a.order[1] = "op" /\ a.opResult.kind = "error") =>
              /\ a.wt = OpError(k)
              /\ a.wt = a.opResult
              /\ a.wt # TimeoutError(k)
              /\ a.res = a.wt
              /\ fn[c] = "withTimeout" =>
                   (pc[c] = "done" /\ outcome[c] = OpError(k))

\* C10 witness: the operation rejected first and the timer has elapsed since.
C10_Witness ==
    \E c \in CallIds :
        /\ fn[c] = "withTimeout"
        /\ Len(attempts[c]) = 1
        /\ attempts[c][1].order = <<"op", "timer">>
        /\ outcome[c] = OpError(1)
        /\ now > attempts[c][1].wtAt

\* C11: under a fair event loop a direct withTimeout call, once made, always
\* settles, for every timeoutMs >= 0 and timeoutMs = 0 in particular; and when
\* its operation never settles it settles with Timeout, timeoutMs after the
\* call.
C11_WithTimeoutNeverHangs ==
    /\ \A c \in CallIds :
         (fn[c] = "withTimeout" /\ pc[c] = "await")
             ~> (pc[c] = "done" /\ outcome[c].kind \in {"value", "error"})
    /\ [](\A c \in CallIds :
            (fn[c] = "withTimeout" /\ pc[c] = "done" /\ ~attempts[c][1].opSettles) =>
              /\ outcome[c] = TimeoutError(1)
              /\ attempts[c][1].wtAt = attempts[c][1].opStart + args[c].timeoutMs)

\* C11 witness: timeoutMs = 0, an operation that never settles, Timeout at 0 ms.
C11_Witness ==
    \E c \in CallIds :
        /\ fn[c] = "withTimeout"
        /\ args[c].timeoutMs = 0
        /\ ~args[c].promise.settles
        /\ pc[c] = "done"
        /\ attempts[c][1].opState = "pending"
        /\ outcome[c] = TimeoutError(1)
        /\ now = 0

\* What the settlements of attempt record a alone make of attempt k: nothing
\* yet, the operation's own settlement, or that attempt's Timeout.
OwnResult(a, k) ==
    IF a.opState = "threw" THEN {OpError(k)}
    ELSE {NoOutcome}
         \cup (IF a.opSettles /\ a.opDue <= a.timerDue THEN {a.opResult} ELSE {})
         \cup (IF ~a.opSettles \/ a.opDue >= a.timerDue THEN {TimeoutError(k)} ELSE {})

\* C12: with two fetchWithRetry calls interleaved on the event loop, every
\* call's state is what its own arguments and the settlements of its own
\* attempts make it: each attempt's result comes from its own promise or its
\* own 10000 ms timer; attempt k + 1 starts delay * k ms after attempt k
\* failed; lastError is the failure of the call's own latest failed attempt;
\* the number of invocations stays within its own maxRetries; and its outcome
\* is its own latest attempt's value or failure.
C12_CallsIndependent ==
    \A c \in RetryCalls :
        LET n == Len(attempts[c])
            failed == {k \in 1..n : attempts[c][k].res.kind = "error"}
            caught == IF pc[c] = "catch" THEN failed \ {n} ELSE failed
        IN
        /\ n <= args[c].maxRetries
        /\ Len(waits[c]) = Cardinality(caught \ {args[c].maxRetries})
        /\ \A k \in 1..n :
             LET a == attempts[c][k] IN
             /\ a.res \in OwnResult(a, k)
             /\ a.opState # "threw" => a.timerDue = a.opStart + SUPABASE_TIMEOUT
             /\ (a.res = a.opResult /\ a.opState # "threw") => a.resAt = a.opDue
             /\ a.res = TimeoutError(k) => a.resAt = a.timerDue
             /\ k > 1 => a.opStart = attempts[c][k - 1].resAt + args[c].delay * (k - 1)
        /\ lastError[c] =
             IF caught = {} THEN Undefined
             ELSE attempts[c][CHOOSE k \in caught : \A j \in caught : j <= k].res
        /\ pc[c] = "done" =>
             /\ n >= 1
             /\ outcome[c] = attempts[c][n].res
             /\ outcome[c].kind = "error" => n = args[c].maxRetries

\* C12 witness: call 2 started while call 1 was in its first attempt; call 1
\* rejected with its second attempt's Timeout, call 2 resolved with the value
\* of its own second attempt.
C12_Witness ==
    /\ fn[1] = "fetchWithRetry" /\ fn[2] = "fetchWithRetry"
    /\ pc[1] = "done" /\ pc[2] = "done"
    /\ Len(attempts[1]) = 2 /\ Len(attempts[2]) = 2
    /\ attempts[1][1].opStart < attempts[2][1].opStart
    /\ attempts[2][1].opStart < attempts[1][2].opStart
    /\ attempts[1][2].opStart <= attempts[2][2].opStart
    /\ attempts[2][2].opStart < attempts[1][2].resAt
    /\ outcome[1] = TimeoutError(2)
    /\ outcome[2] = OpValue(2)
    /\ lastError[2] = OpError(1)

\* C14: every attempt of fetchWithRetry is raced against a timer of
\* SUPABASE_TIMEOUT = 10000 ms, so no attempt is awaited beyond 10000 ms; an
\* attempt whose timer elapsed first is a failure with Timeout at exactly
\* 10000 ms, caught like any other: if attempts remain the backoff wait of
\* delay * k starts at that moment (and attempt k + 1 follows it), and if it
\* was the last attempt the call rejects with that Timeout.
C14_AttemptsBoundedByDeadline ==
    \A c \in RetryCalls :
        \A k \in DOMAIN attempts[c] :
            LET a == attempts[c][k]
                n == Len(attempts[c])
                deadline == a.opStart + SUPABASE_TIMEOUT
            IN
            a.opState # "threw" =>
              /\ a.timeoutMs = SUPABASE_TIMEOUT
              /\ a.timerDue = deadline
              /\ a.res.kind = "none" => now <= deadline
              /\ a.res.kind # "none" => a.resAt <= deadline
              /\ (a.order # <<>> /\ a.order[1] = "timer") =>
                   /\ a.res = TimeoutError(k)
                   /\ a.resAt = deadline
                   /\ (k < n \/ pc[c] # "catch") =>
                        /\ lastError[c] = TimeoutError(k) \/ k < n
                        /\ k < args[c].maxRetries =>
                             /\ Len(waits[c]) >= k
                             /\ waits[c][k].start = deadline
                             /\ waits[c][k].ms = args[c].delay * k
                             /\ k < n => attempts[c][k + 1].opStart = waits[c][k].due
                        /\ k = args[c].maxRetries =>
                             /\ pc[c] \in {"test", "throw", "done"}
                             /\ pc[c] = "done" => outcome[c] = TimeoutError(k)

\* C14 witness: the first attempt timed out at 10000 ms and was retried after
\* 1000 ms; the second, last attempt timed out at 21000 ms and the call
\* rejected with that Timeout.
C14_Witness ==
    \E c \in RetryCalls :
        /\ args[c].maxRetries = 2
        /\ args[c].delay = DefaultDelay
        /\ Len(attempts[c]) = 2
        /\ attempts[c][1].res = TimeoutError(1)
        /\ attempts[c][1].resAt = SUPABASE_TIMEOUT
        /\ attempts[c][2].opStart = SUPABASE_TIMEOUT + DefaultDelay
        /\ attempts[c][2].resAt = 2 * SUPABASE_TIMEOUT + DefaultDelay
        /\ pc[c] = "done"
        /\ outcome[c] = TimeoutError(2)

\* C15: under a fair event loop every fetchWithRetry call that has been made
\* (whatever maxRetries and delay >= 0 it was given, and whether or not the
\* promises of its operation ever settle) eventually produces its outcome.
C15_CallEventuallySettles ==
    \A c \in CallIds :
        (fn[c] = "fetchWithRetry" /\ pc[c] \notin {"start", "done"})
            ~> (pc[c] = "done" /\ nOutcomes[c] = 1)

\* C15 witness: three attempts whose promises never settle; the call rejects
\* after 3 * 10000 + 1000 + 2000 ms.
C15_Witness ==
    \E c \in RetryCalls :
        /\ args[c].maxRetries = 3
        /\ args[c].delay = DefaultDelay
        /\ Len(attempts[c]) = 3
        /\ \A k \in 1..3 : ~attempts[c][k].opSettles /\ attempts[c][k].opState = "pending"
        /\ pc[c] = "done"
        /\ outcome[c] = TimeoutError(3)
        /\ now = 3 * SUPABASE_TIMEOUT + 3 * DefaultDelay

\* C16: a fetchWithRetry call with maxRetries <= 0 never invokes the operation
\* and never waits; it does not resolve, and when it is done it has rejected
\* with the undefined value lastError was left with.
C16_NoAttemptsRejectsUndefined ==
    \A c \in RetryCalls :
        args[c].maxRetries <= 0 =>
          /\ attempts[c] = <<>>
          /\ waits[c] = <<>>
          /\ pc[c] \in {"start", "test", "throw", "done"}
          /\ lastError[c] = Undefined
          /\ outcome[c].kind # "value"
          /\ pc[c] = "done" =>
               /\ outcome[c] = [kind |-> "error", val |-> "undefined", id |-> 0]
               /\ now = 0

\* C16 witness: maxRetries = 0, rejected with undefined, nothing invoked.
C16_Witness ==
    \E c \in RetryCalls :
        /\ args[c].maxRetries = 0
        /\ pc[c] = "done"
        /\ attempts[c] = <<>>
        /\ outcome[c].val = "undefined"
        /\ nOutcomes[c] = 1

(* ---- C13 *)
\* C13: one call of createNovel makes at most one cover upload, and only
\* when a cover image was given, and at most one insert; the insert is
\* issued only after the upload, if any, has succeeded; a failed request is
\* not repeated; and a cover stored before the insert failed stays stored.
C13_SingleAttemptNoCompensation ==
    cn.pc # "idle" =>
        /\ io.uploads = (IF cn.coverImage = "null" THEN 0 ELSE 1)
        /\ io.inserts <= 1
        /\ cn.pc = "upload" => io.inserts = 0 /\ ~io.stored
        /\ io.inserts = 1 => (io.stored <=> cn.coverImage # "null")
        /\ io.inserts = 0 => ~io.stored /\ io.row = "none"
        /\ io.row # "none" => io.row = (IF io.stored THEN "url" ELSE "null")

\* The cover was stored, then the insert failed.
C13_Witness ==
    /\ cn.pc = "done"
    /\ ~cn.success
    /\ io.uploads = 1
    /\ io.inserts = 1
    /\ io.stored
    /\ io.row = "none"

(* ---- C17 *)
\* C17: createNovel never rejects.  Once it has settled it has resolved; it
\* reports success exactly when the insert reported no error, and a failure
\* of the upload or of the insert is returned as {success: false, error};
\* it has emitted exactly one notification, a success notification if
\* success is true and an error notification otherwise; before it settles
\* it has emitted none.
C17_NeverRejectsOneNotification ==
    /\ cn.pc \in {"upload", "insert"} => cn.settled = "pending" /\ toasts = <<>>
    /\ cn.pc = "done" =>
        /\ cn.settled = "resolved"
        /\ cn.success <=> io.row # "none"
        /\ cn.success => cn.error = "undefined"
        /\ ~cn.success => cn.error \in Messages
        /\ Len(toasts) = 1
        /\ toasts[1].type = (IF cn.success THEN "success" ELSE "error")
        /\ ~cn.success => toasts[1].text = OrElse(cn.error, "Failed to create novel")

\* The cover upload failed: the call resolved with a failure result and
\* never reached the insert.
C17_Witness ==
    /\ cn.pc = "done"
    /\ cn.settled = "resolved"
    /\ ~cn.success
    /\ io.uploads = 1
    /\ io.inserts = 0
    /\ Len(toasts) = 1

(* ---- C18 *)
NoDuplicates(list) ==
    \A j, k \in DOMAIN list : list[j] = list[k] => j = k

\* C18: the selected genres are always at most three and pairwise distinct,
\* and a step changes the list only by removing one selected genre or by
\* adding one unselected genre at the end while fewer than three are
\* selected; with three selected no unselected genre can be added.
C18_GenreListBounded ==
    [][/\ Len(formData.genre) <= 3
       /\ NoDuplicates(formData.genre)
       /\ Len(formData'.genre) <= 3
       /\ NoDuplicates(formData'.genre)
       /\ formData'.genre # formData.genre =>
            \E g \in Genres :
                \/ /\ Includes(formData.genre, g)
                   /\ ~Includes(formData'.genre, g)
                   /\ Len(formData'.genre) = Len(formData.genre) - 1
                   /\ \A h \in Genres \ {g} :
                        Includes(formData'.genre, h) <=> Includes(formData.genre, h)
                \/ /\ ~Includes(formData.genre, g)
                   /\ Len(formData.genre) < 3
                   /\ formData'.genre = formData.genre \o <<g>>]_vars

\* Three genres are selected and a fourth one exists to be clicked.
C18_Witness ==
    /\ Len(formData.genre) = 3
    /\ \E g \in Genres : ~Includes(formData.genre, g)

(* ---- C19 *)
\* Some character of s is not whitespace.
NonBlank(s) == \E k \in DOMAIN s : s[k] # " "

FormValid ==
    /\ NonBlank(formData.title)
    /\ NonBlank(formData.author)
    /\ NonBlank(formData.story)
    /\ Len(formData.genre) >= 1

ValidationMessages ==
    {"Title is required", "Author is required",
     "Please select at least one genre", "Synopsis is required"}

\* C19: a step that starts a createNovel call, or issues any request, is
\* taken only with a user profile and a form whose title, author and
\* synopsis are non-blank and which has at least one genre; without a
\* profile no step changes anything but the form fields; and with a profile
\* and an invalid form a submit changes only the error, which becomes a
\* validation message, while uploading stays false and no request is made.
C19_SubmitGuarded ==
    [][/\ (cn' # cn /\ cn'.pc \in {"upload", "insert"} /\ cn.pc \notin {"upload", "insert"}) =>
            userProfile /\ FormValid
       /\ (~uploading /\ uploading') => userProfile /\ FormValid
       /\ (~uploading /\ io' # io) => userProfile /\ FormValid
       /\ ~userProfile =>
            UNCHANGED <<uploading, error, inFlight, cn, io, toasts, callbacks>>
       /\ (userProfile /\ ~uploading /\ ~FormValid) =>
            /\ UNCHANGED <<uploading, inFlight, cn, io, toasts, callbacks>>
            /\ error' # error =>
                 /\ error' \in ValidationMessages
                 /\ UNCHANGED <<formData, coverImage>>]_vars

\* A submit with a synopsis of whitespace only was refused.
C19_Witness ==
    /\ userProfile
    /\ error = "Synopsis is required"
    /\ formData.story = <<" ">>
    /\ NonBlank(formData.title)
    /\ NonBlank(formData.author)
    /\ ~uploading
    /\ cn = NoCall
    /\ io = NoIo

(* ---- C20 *)
\* C20: uploading is true exactly while the submitted createNovel has not
\* settled, and at most one such call exists; the step on which the call
\* settles resets uploading to false, and on that step either the call
\* succeeded and onCreated, then onClose, are each called once, or it failed
\* and neither is called and the error message is set; the callbacks are
\* called on no other step.
C20_UploadingTracksCall ==
    [][/\ inFlight \in {0, 1}
       /\ uploading <=> inFlight = 1
       /\ uploading <=> cn.pc \in {"upload", "insert"}
       /\ uploading => callbacks = <<>>
       /\ (uploading /\ cn'.pc = "done") =>
            /\ ~uploading'
            /\ inFlight' = 0
            /\ IF cn'.settled = "resolved" /\ cn'.success
               THEN callbacks' = <<"onCreated", "onClose">> /\ error' = "null"
               ELSE callbacks' = <<>> /\ error' \notin {"null", "undefined"}
       /\ callbacks' # callbacks =>
            \/ uploading /\ cn'.pc = "done" /\ cn'.success
            \/ ~uploading /\ uploading' /\ callbacks' = <<>>]_vars

\* A submitted call succeeded: both callbacks were called, in order, and
\* uploading is false again.
C20_Witness ==
    /\ cn.pc = "done"
    /\ cn.success
    /\ callbacks = <<"onCreated", "onClose">>
    /\ ~uploading
    /\ inFlight = 0

====
